---- MODULE Spec2Model ----
(***************************************************************************)
(* Weekly draft generator of min-football (src/unnamed/part_000): one run  *)
(* of generateDraft, from the upstream fetch to the written draft file,    *)
(* and direct calls of mapToSchema with an arbitrary team-metadata lookup. *)
(* Further down: the page that shows a draft (src/unnamed/part_001 with    *)
(* src/assets/state.js) and the service worker in front of its requests    *)
(* (src/API_SETUP.md).  Each of the three has its own specification.       *)
(*                                                                         *)
(* JavaScript values are tagged records [t, v]; a JavaScript string is a   *)
(* sequence of chunks (TLA+ strings): team names, numerals and ids are     *)
(* spelled one character per chunk, the literal text of a template is one  *)
(* chunk per literal.                                                      *)
(***************************************************************************)
EXTENDS Integers, Sequences, FiniteSets, TLC

VARIABLES pc, apiKey, requests, fetchStatus, games, ranked, processedGames,
          file, exitCode, stages, mapArgs, mapResult,
          State, loads, shown, timer, today,
          cache, events, swPhase, cacheKeys, keys, pending

vars == <<pc, apiKey, requests, fetchStatus, games, ranked, processedGames,
          file, exitCode, stages, mapArgs, mapResult,
          State, loads, shown, timer, today,
          cache, events, swPhase, cacheKeys, keys, pending>>

\* the page: the State object, the loads in flight, what the sections show,
\* the debounce timer of the search box, the day the page is opened
frontVars == <<State, loads, shown, timer, today>>

\* the life of the service worker: where it is between install and
\* activation, the names of the caches in CacheStorage, what caches.keys()
\* gave the activate handler and the caches.delete calls still running
lifeVars == <<swPhase, cacheKeys, keys, pending>>

\* the service worker: its cache, the fetch events it is handling and its
\* life
swVars == <<cache, events, lifeVars>>

runVars == <<pc, apiKey, requests, fetchStatus, games, ranked, processedGames,
             file, exitCode, stages>>

(***************************************************************************)
(* Bounds of the model.                                                    *)
(***************************************************************************)
\* longest upstream response built from the catalogue of payload kinds
MaxGames == 6

\* longest upstream response of the runs checked for progress
MaxShortGames == 2

\* seeds of the random source: draw i of a run is (seed + i) % 3
Seeds == 0 .. 2

\* how many times the same arguments are mapped
MaxCalls == 2

(***************************************************************************)
(* JavaScript values.                                                      *)
(***************************************************************************)
Num(n) == [t |-> "num", v |-> n]

Bool(b) == [t |-> "bool", v |-> IF b THEN 1 ELSE 0]

Null == [t |-> "null", v |-> 0]

Undef == [t |-> "undef", v |-> 0]

\* ToBoolean of a number, boolean, null or undefined
Truthy(x) == x.t \in {"num", "bool"} /\ x.v # 0

\* `x || 0` for a numeric, null or absent field
OrZero(x) == IF Truthy(x) THEN x.v ELSE 0

\* `x !== null`
NotNull(x) == x.t # "null"

\* `x === n` for a number n
StrictEq(x, n) == x.t = "num" /\ x.v = n

\* `x > n`: undefined converts to NaN (false), null to 0, a boolean to 0 or 1
Greater(x, n) == x.t # "undef" /\ x.v > n

Abs(n) == IF n < 0 THEN -n ELSE n

Min(a, b) == IF a < b THEN a ELSE b

(***************************************************************************)
(* JavaScript strings.                                                     *)
(***************************************************************************)
EnDash == "U+2013"

Hyphen == "-"

Digits == <<"0", "1", "2", "3", "4", "5", "6", "7", "8", "9">>

LowerCase == <<"a", "b", "c", "d", "e", "f", "g", "h", "i", "j", "k", "l", "m",
               "n", "o", "p", "q", "r", "s", "t", "u", "v", "w", "x", "y", "z">>

UpperCase == <<"A", "B", "C", "D", "E", "F", "G", "H", "I", "J", "K", "L", "M",
               "N", "O", "P", "Q", "R", "S", "T", "U", "V", "W", "X", "Y", "Z">>

RECURSIVE NatStr(_)
NatStr(n) ==
  IF n < 10 THEN <<Digits[n + 1]>>
  ELSE NatStr(n \div 10) \o <<Digits[(n % 10) + 1]>>

\* String(n) of an integer
NumStr(n) == IF n < 0 THEN <<Hyphen>> \o NatStr(-n) ELSE NatStr(n)

\* `${x}` of a number, null, undefined or boolean
Interpolate(x) ==
  CASE x.t = "num" -> NumStr(x.v)
    [] x.t = "null" -> <<"null">>
    [] x.t = "undef" -> <<"undefined">>
    [] x.t = "bool" -> IF x.v = 1 THEN <<"true">> ELSE <<"false">>

toUpperChar(c) ==
  IF \E i \in 1 .. Len(LowerCase) : LowerCase[i] = c
  THEN UpperCase[CHOOSE i \in 1 .. Len(LowerCase) : LowerCase[i] = c]
  ELSE c

toUpperCase(s) == [i \in 1 .. Len(s) |-> toUpperChar(s[i])]

\* s.substring(0, n)
substring0(s, n) == SubSeq(s, 1, Min(n, Len(s)))

(***************************************************************************)
(* Upstream payloads.                                                      *)
(***************************************************************************)
FresnoState == <<"F", "r", "e", "s", "n", "o", " ", "S", "t", "a", "t", "e">>

GeorgiaSouthern == <<"G", "e", "o", "r", "g", "i", "a", " ", "S", "o", "u", "t", "h", "e", "r", "n">>

UCF == <<"U", "C", "F">>

Rice == <<"R", "i", "c", "e">>

TeamNames == {FresnoState, GeorgiaSouthern, UCF, Rice}

TeamPairs == {<<FresnoState, GeorgiaSouthern>>, <<UCF, Rice>>, <<Rice, FresnoState>>}

StubId == <<"2", "0", "2", "5", "-", "0", "8", "-", "3", "0", "-", "2", "7", "8", "-", "2", "9", "0">>

\* the numeric id the provider gives a team; the stub dataset carries none
TeamId(name) ==
  CASE name = FresnoState -> 278
    [] name = GeorgiaSouthern -> 290
    [] name = UCF -> 2116
    [] name = Rice -> 242

Payload(id, home, away, hp, ap, completed, periods, conf) ==
  [id |-> id, home_team |-> home, away_team |-> away, home_points |-> hp,
   away_points |-> ap, completed |-> completed, periods |-> periods,
   conference_game |-> conf, home_id |-> Num(TeamId(home)),
   away_id |-> Num(TeamId(away))]

\* the stub dataset without its completed flag
getStubGames_notCompleted ==
  << [id |-> StubId, home_team |-> FresnoState, away_team |-> GeorgiaSouthern,
      home_points |-> Num(28), away_points |-> Num(24),
      completed |-> Undef, periods |-> Undef, conference_game |-> Undef,
      home_id |-> Undef, away_id |-> Undef] >>

getStubGames ==
  << [id |-> StubId, home_team |-> FresnoState, away_team |-> GeorgiaSouthern,
      home_points |-> Num(28), away_points |-> Num(24),
      completed |-> Bool(TRUE), periods |-> Undef, conference_game |-> Undef,
      home_id |-> Undef, away_id |-> Undef] >>

\* score fields an upstream payload may carry: absent, null, or a number
PointValues ==
  {Undef, Null} \cup {Num(n) : n \in {0, 24, 27, 28, 35, 36, 45}}

CompletedValues == {Bool(TRUE), Bool(FALSE), Undef}

PeriodValues == {Undef, Num(4), Num(5), Num(6)}

ConferenceValues == {Undef, Bool(TRUE), Bool(FALSE)}

\* every single payload over the value sets above
SinglePayloads ==
  { Payload(<<"g", "1">>, tp[1], tp[2], hp, ap, c, p, cg) :
      tp \in TeamPairs, hp \in PointValues, ap \in PointValues,
      c \in CompletedValues, p \in PeriodValues, cg \in ConferenceValues }

\* the catalogue of payload kinds longer responses are built from; the id of
\* a payload is its position in the response
KindPayload(k, i) ==
  CASE k = 1 -> Payload(<<"g">> \o NatStr(i), FresnoState, GeorgiaSouthern,
                        Num(28), Num(24), Bool(TRUE), Undef, Undef)
    [] k = 2 -> Payload(<<"g">> \o NatStr(i), UCF, Rice,
                        Num(35), Num(35), Bool(TRUE), Num(5), Bool(TRUE))
    [] k = 3 -> Payload(<<"g">> \o NatStr(i), Rice, FresnoState,
                        Null, Null, Bool(FALSE), Undef, Bool(FALSE))
    [] k = 4 -> Payload(<<"g">> \o NatStr(i), GeorgiaSouthern, UCF,
                        Undef, Num(24), Bool(TRUE), Num(4), Undef)

Kinds == 1 .. 4

KindSeqs == UNION { [1 .. n -> Kinds] : n \in 0 .. MaxGames }

ShortBodies ==
  { [i \in 1 .. Len(ks) |-> KindPayload(ks[i], i)] :
      ks \in UNION { [1 .. n -> Kinds] : n \in 0 .. MaxShortGames } }

\* the bodies a successful upstream response may parse to
Bodies ==
  { [i \in 1 .. Len(ks) |-> KindPayload(ks[i], i)] : ks \in KindSeqs }
    \cup { <<p>> : p \in SinglePayloads }

(***************************************************************************)
(* rankGames.                                                              *)
(***************************************************************************)
TopN == 5

\* the filter predicate of rankGames
isCompleted(g) ==
  Truthy(g.completed) /\ NotNull(g.home_points) /\ NotNull(g.away_points)

\* One-score finish, ties
closeBonus(scoreDiff) ==
  (IF scoreDiff <= 8 THEN 6 ELSE 0)
    + (IF scoreDiff <= 3 THEN 4 ELSE 0)
    + (IF scoreDiff = 0 THEN 3 ELSE 0)

\* High-scoring shootout
shootoutBonus(totalPoints) ==
  (IF totalPoints > 70 THEN 3 ELSE 0) + (IF totalPoints > 80 THEN 2 ELSE 0)

\* Conference game gets small boost
conferenceBonus(game) == IF Truthy(game.conference_game) THEN 1 ELSE 0

\* overtimeBonus with the single-overtime test written `periods >= 5`, so
\* that a multiple-overtime game takes both bonuses
overtimeBonus_both(game) ==
  (IF Greater(game.periods, 4) THEN 4 ELSE 0)
    + (IF Greater(game.periods, 5) THEN 6 ELSE 0)

\* Overtime games get extra points
overtimeBonus(game) ==
  (IF StrictEq(game.periods, 5) THEN 4 ELSE 0)
    + (IF Greater(game.periods, 5) THEN 6 ELSE 0)

\* winnerOf with `>=`: a tie goes to the home side
winnerOf_tieHome(homeScore, awayScore) ==
  IF homeScore >= awayScore THEN "home" ELSE "away"

winnerOf(homeScore, awayScore) ==
  IF homeScore > awayScore THEN "home" ELSE "away"

\* the first map callback of rankGames: the record with its derived fields
scoreGame(game) ==
  LET homeScore == OrZero(game.home_points)
      awayScore == OrZero(game.away_points)
      scoreDiff == Abs(homeScore - awayScore)
      totalPoints == homeScore + awayScore
      score == closeBonus(scoreDiff) + shootoutBonus(totalPoints)
                 + conferenceBonus(game) + overtimeBonus(game)
  IN  [id |-> game.id, home_team |-> game.home_team,
       away_team |-> game.away_team, home_points |-> game.home_points,
       away_points |-> game.away_points, completed |-> game.completed,
       periods |-> game.periods, conference_game |-> game.conference_game,
       home_id |-> game.home_id, away_id |-> game.away_id,
       _rankScore |-> score, _scoreDiff |-> scoreDiff,
       _totalPoints |-> totalPoints,
       _winner |-> winnerOf(homeScore, awayScore)]

\* games.filter(pred)
RECURSIVE filterCompleted(_)
filterCompleted(s) ==
  IF s = <<>> THEN <<>>
  ELSE IF isCompleted(Head(s)) THEN <<Head(s)>> \o filterCompleted(Tail(s))
       ELSE filterCompleted(Tail(s))

\* the comparator (a, b) => b._rankScore - a._rankScore
compareRank(a, b) == b._rankScore - a._rankScore

\* x placed into the sorted sequence s behind every element the comparator
\* does not order after it
RECURSIVE insertSorted(_, _)
insertSorted(s, x) ==
  IF s = <<>> THEN <<x>>
  ELSE IF compareRank(Head(s), x) <= 0 THEN <<Head(s)>> \o insertSorted(Tail(s), x)
       ELSE <<x>> \o s

\* Array.prototype.sort with compareRank: a stable sort
RECURSIVE sortByRank(_)
sortByRank(s) ==
  IF s = <<>> THEN <<>>
  ELSE insertSorted(sortByRank(SubSeq(s, 1, Len(s) - 1)), s[Len(s)])

\* s.slice(0, n)
slice0(s, n) == SubSeq(s, 1, Min(n, Len(s)))

rankGames(gs) ==
  LET completed == filterCompleted(gs)
      scored == [i \in 1 .. Len(completed) |-> scoreGame(completed[i])]
  IN  slice0(sortByRank(scored), TopN)

(***************************************************************************)
(* generateRecap.                                                          *)
(***************************************************************************)
isClose(game) == game._scoreDiff <= 8

isShootout(game) == game._totalPoints > 70

isOvertime(game) == Greater(game.periods, 4)

wonTeam(game) ==
  IF game._winner = "home" THEN game.home_team ELSE game.away_team

lostTeam(game) ==
  IF game._winner = "away" THEN game.home_team ELSE game.away_team

\* sentence1 with the close-game test ahead of the overtime test
sentence1_closeFirst(game) ==
  IF isClose(game)
  THEN IF isShootout(game)
       THEN <<"In a high-scoring affair, ">> \o wonTeam(game) \o <<" edged ">>
              \o lostTeam(game) \o <<" by ">> \o NumStr(game._scoreDiff)
              \o <<" point">>
              \o (IF game._scoreDiff # 1 THEN <<"s">> ELSE <<>>) \o <<".">>
       ELSE wonTeam(game) \o <<" pulled out a narrow ">>
              \o NumStr(game._scoreDiff) \o <<"-point victory over ">>
              \o lostTeam(game) \o <<".">>
  ELSE IF isOvertime(game)
  THEN wonTeam(game) \o <<" survived ">>
         \o (IF isShootout(game) THEN <<"a back-and-forth shootout">>
             ELSE <<"a tight contest">>)
         \o <<" that required overtime to decide.">>
  ELSE wonTeam(game) \o <<" took control ">>
         \o (IF isShootout(game) THEN <<"in the shootout">> ELSE <<"early">>)
         \o <<" and maintained their lead throughout.">>

sentence1(game) ==
  IF isOvertime(game)
  THEN wonTeam(game) \o <<" survived ">>
         \o (IF isShootout(game) THEN <<"a back-and-forth shootout">>
             ELSE <<"a tight contest">>)
         \o <<" that required overtime to decide.">>
  ELSE IF isClose(game)
  THEN IF isShootout(game)
       THEN <<"In a high-scoring affair, ">> \o wonTeam(game) \o <<" edged ">>
              \o lostTeam(game) \o <<" by ">> \o NumStr(game._scoreDiff)
              \o <<" point">>
              \o (IF game._scoreDiff # 1 THEN <<"s">> ELSE <<>>) \o <<".">>
       ELSE wonTeam(game) \o <<" pulled out a narrow ">>
              \o NumStr(game._scoreDiff) \o <<"-point victory over ">>
              \o lostTeam(game) \o <<".">>
  ELSE wonTeam(game) \o <<" took control ">>
         \o (IF isShootout(game) THEN <<"in the shootout">> ELSE <<"early">>)
         \o <<" and maintained their lead throughout.">>

\* sentence2 with the winner test of the shootout branch turned round
sentence2_awayStops(game) ==
  IF isShootout(game)
  THEN <<"Both teams' offenses moved the ball effectively, but ">>
         \o (IF game._winner = "away"
             THEN wonTeam(game) \o <<" managed to get more stops">>
             ELSE lostTeam(game) \o <<" fell short on crucial drives">>)
         \o <<".">>
  ELSE <<"The decisive moments came ">>
         \o (IF isClose(game) THEN <<"late in the game">>
             ELSE <<"when the winning team established momentum">>)
         \o <<".">>

sentence2(game) ==
  IF isShootout(game)
  THEN <<"Both teams' offenses moved the ball effectively, but ">>
         \o (IF game._winner = "home"
             THEN wonTeam(game) \o <<" managed to get more stops">>
             ELSE lostTeam(game) \o <<" fell short on crucial drives">>)
         \o <<".">>
  ELSE <<"The decisive moments came ">>
         \o (IF isClose(game) THEN <<"late in the game">>
             ELSE <<"when the winning team established momentum">>)
         \o <<".">>

\* oneStat with the close-game test ahead of the shootout test
oneStat_closeFirst(game) ==
  IF isOvertime(game) THEN Interpolate(game.periods) \o <<" periods total">>
  ELSE IF isClose(game) THEN NumStr(game._scoreDiff) \o <<"-point margin">>
  ELSE IF isShootout(game)
  THEN <<"Combined ">> \o NumStr(game._totalPoints) \o <<" points">>
  ELSE wonTeam(game) \o <<" won by ">> \o NumStr(game._scoreDiff)

oneStat(game) ==
  IF isOvertime(game) THEN Interpolate(game.periods) \o <<" periods total">>
  ELSE IF isShootout(game)
  THEN <<"Combined ">> \o NumStr(game._totalPoints) \o <<" points">>
  ELSE IF isClose(game) THEN NumStr(game._scoreDiff) \o <<"-point margin">>
  ELSE wonTeam(game) \o <<" won by ">> \o NumStr(game._scoreDiff)

\* whyOptions with the shootout test of its second slot turned round
whyOptions_swapped(game) ==
  << <<"Both teams showed resilience, but execution in key moments made the difference.">>,
     IF ~isShootout(game)
     THEN <<"The high-scoring affair showcased explosive offenses struggling to get defensive stops.">>
     ELSE <<"Defensive discipline and limiting mistakes proved critical in the outcome.">>,
     IF isClose(game)
     THEN <<"A single big play or stop swung momentum in this tightly contested game.">>
     ELSE <<"The winner established control and never let their opponent back in the game.">> >>

whyOptions(game) ==
  << <<"Both teams showed resilience, but execution in key moments made the difference.">>,
     IF isShootout(game)
     THEN <<"The high-scoring affair showcased explosive offenses struggling to get defensive stops.">>
     ELSE <<"Defensive discipline and limiting mistakes proved critical in the outcome.">>,
     IF isClose(game)
     THEN <<"A single big play or stop swung momentum in this tightly contested game.">>
     ELSE <<"The winner established control and never let their opponent back in the game.">> >>

\* generateRecap with draw the value of
\* Math.floor(Math.random() * whyOptions.length)
generateRecap(game, draw) ==
  [id |-> game.id, home_team |-> game.home_team,
   away_team |-> game.away_team, home_points |-> game.home_points,
   away_points |-> game.away_points, completed |-> game.completed,
   periods |-> game.periods, conference_game |-> game.conference_game,
   home_id |-> game.home_id, away_id |-> game.away_id,
   _rankScore |-> game._rankScore, _scoreDiff |-> game._scoreDiff,
   _totalPoints |-> game._totalPoints, _winner |-> game._winner,
   recap_2s |-> sentence1(game) \o <<" ">> \o sentence2(game),
   one_stat |-> oneStat(game),
   why_it_mattered |-> whyOptions(game)[draw + 1]]

(***************************************************************************)
(* mapToSchema.  A lookup (teamData) is a function from some team names to *)
(* entries [abbr, logo]; the empty string is <<>>.                         *)
(***************************************************************************)
EmptyLookup == << >>

hasEntry(teamData, name) == name \in DOMAIN teamData

\* abbrOf without toUpperCase()
abbrOf_noUpperCase(teamData, name) ==
  IF hasEntry(teamData, name) /\ teamData[name].abbr # <<>>
  THEN teamData[name].abbr
  ELSE substring0(name, 4)

\* teamData[name]?.abbr || name.substring(0, 4).toUpperCase()
abbrOf(teamData, name) ==
  IF hasEntry(teamData, name) /\ teamData[name].abbr # <<>>
  THEN teamData[name].abbr
  ELSE toUpperCase(substring0(name, 4))

\* teamData[name]?.logo || ''
logoOf(teamData, name) ==
  IF hasEntry(teamData, name) /\ teamData[name].logo # <<>>
  THEN teamData[name].logo
  ELSE <<>>

\* finalOf with a hyphen for the en-dash
finalOf_hyphen(game) ==
  Interpolate(game.home_points) \o <<Hyphen>> \o Interpolate(game.away_points)

\* `${game.home_points}–${game.away_points}`
finalOf(game) ==
  Interpolate(game.home_points) \o <<EnDash>> \o Interpolate(game.away_points)

mapToSchema(game, teamData) ==
  [home |-> [name |-> game.home_team,
             abbr |-> abbrOf(teamData, game.home_team),
             logo |-> logoOf(teamData, game.home_team)],
   away |-> [name |-> game.away_team,
             abbr |-> abbrOf(teamData, game.away_team),
             logo |-> logoOf(teamData, game.away_team)],
   final |-> finalOf(game),
   recap_2s |-> game.recap_2s,
   one_stat |-> game.one_stat,
   why_it_mattered |-> game.why_it_mattered,
   tags |-> <<>>,
   ids |-> [home_id |-> OrZero(game.home_id),
            away_id |-> OrZero(game.away_id),
            game_id |-> game.id]]

(***************************************************************************)
(* generateOpinions, generateWhatsNext and the assembled draft.            *)
(***************************************************************************)
generateOpinions ==
  << <<"Defensive coordinators are winning the early-season chess matches with aggressive third-down schemes.">>,
     <<"Quarterback efficiency on first and second down remains the strongest predictor of offensive success.">>,
     <<"Red-zone execution separated close games this week; teams that settled for field goals early paid the price later.">>,
     <<"Turnover margin continues to be the most reliable indicator of game outcomes, with a +2 swing worth roughly 10 points.">> >>

generateWhatsNext ==
  << [when |-> <<"Fri">>, match |-> <<"TBD">>, hook |-> <<"Friday night spotlight">>],
     [when |-> <<"Sat">>, match |-> <<"TBD">>, hook |-> <<"Weekend showcase">>] >>

\* process.env.WEEK and process.env.SCOPE of the modelled run
WEEK == 1

SCOPE == <<"cfb">>

\* String(WEEK).padStart(2, '0')
padStart2(str) == IF Len(str) < 2 THEN <<"0">> \o str ELSE str

outputPath ==
  <<"data/">> \o SCOPE \o <<"/week_">> \o padStart2(NumStr(WEEK)) \o <<".json">>

\* the draft object of generateDraft (generated_at, the wall-clock time of
\* the run, is left out)
draftOf(topGames) ==
  [meta |-> [week |-> WEEK, scope |-> SCOPE,
             sources |-> << <<"cfbd:v1 games/box; rankings/v1">> >>],
   top_games |-> topGames,
   quick_opinions |-> generateOpinions,
   whats_next |-> generateWhatsNext]

(***************************************************************************)
(* Inputs of a direct call of mapToSchema.                                 *)
(***************************************************************************)
LookupEntries ==
  { [abbr |-> a, logo |-> l] :
      a \in {<<>>, <<"F", "S", "U">>}, l \in {<<>>, <<"/logos/team.png">>} }

Lookups == UNION { [D -> LookupEntries] : D \in SUBSET TeamNames }

SynthesizedGames ==
  { generateRecap(scoreGame(KindPayload(k, 1)), 0) :
      k \in { j \in Kinds : isCompleted(KindPayload(j, 1)) } }
    \cup { generateRecap(scoreGame(getStubGames[1]), 1) }

MapInputs ==
  { [game |-> g, teamData |-> td] : g \in SynthesizedGames, td \in Lookups }

(***************************************************************************)
(* One run of generateDraft.  pc is the position of the run; games holds   *)
(* the payloads fetchGames returned as they were returned.                 *)
(***************************************************************************)
\* the week value 'current'
WeekCurrent == [t |-> "str", v |-> 0]

\* the State object as state.js declares it
StateInit ==
  [_scope |-> <<"cfb">>, _week |-> WeekCurrent, _data |-> <<>>,
   _searchTerm |-> <<>>]

\* no page is open
FrontIdle ==
  /\ State = StateInit
  /\ loads = <<>>
  /\ shown = [view |-> "static", doc |-> <<>>, term |-> <<>>]
  /\ timer = FALSE
  /\ today = 0

\* no service worker is installed
SwIdle ==
  /\ cache = << >>
  /\ events = <<>>
  /\ swPhase = "none"
  /\ cacheKeys = {}
  /\ keys = {}
  /\ pending = {}

\* no generator run and no direct call
RunIdle ==
  /\ pc = "idle"
  /\ apiKey = FALSE
  /\ requests = 0
  /\ fetchStatus = "none"
  /\ games = <<>>
  /\ ranked = <<>>
  /\ processedGames = <<>>
  /\ file = <<>>
  /\ exitCode = <<>>
  /\ stages = <<>>
  /\ mapArgs = <<>>
  /\ mapResult = <<>>

InitRun ==
  /\ FrontIdle
  /\ SwIdle
  /\ pc = "start"
  /\ apiKey \in BOOLEAN
  /\ requests = 0
  /\ fetchStatus = "none"
  /\ games = <<>>
  /\ ranked = <<>>
  /\ processedGames = <<>>
  /\ file = <<>>
  /\ exitCode = <<>>
  /\ stages = <<>>
  /\ mapArgs = <<>>
  /\ mapResult = <<>>

InitMapCall ==
  /\ FrontIdle
  /\ SwIdle
  /\ pc = "call"
  /\ apiKey = FALSE
  /\ requests = 0
  /\ fetchStatus = "none"
  /\ games = <<>>
  /\ ranked = <<>>
  /\ processedGames = <<>>
  /\ file = <<>>
  /\ exitCode = <<>>
  /\ stages = <<>>
  /\ mapArgs \in { <<a>> : a \in MapInputs }
  /\ mapResult = <<>>

Init == InitRun \/ InitMapCall

\* what fetchGames does when it comes back with `v` for the reason `status`
fetchReturns(v, status) ==
  /\ games' = v
  /\ fetchStatus' = status
  /\ pc' = "fetched"
  /\ stages' = Append(stages, "fetchGames")
  /\ UNCHANGED <<frontVars, swVars, apiKey, ranked, processedGames, file, exitCode, mapArgs, mapResult>>

\* fetchGames without a credential: the stub, no request
fetchGamesNoKey ==
  /\ pc = "start"
  /\ ~apiKey
  /\ fetchReturns(getStubGames, "nokey")
  /\ UNCHANGED requests

\* fetchGames with a credential: the request is issued and awaited
fetchGamesRequest ==
  /\ pc = "start"
  /\ apiKey
  /\ requests' = requests + 1
  /\ pc' = "awaiting"
  /\ UNCHANGED <<frontVars, swVars, apiKey, fetchStatus, games, ranked, processedGames, file,
                 exitCode, stages, mapArgs, mapResult>>

\* fetchThrows with a retry: the rejected request is issued again
fetchThrows_retry ==
  /\ pc = "awaiting"
  /\ requests < 3
  /\ requests' = requests + 1
  /\ UNCHANGED <<frontVars, swVars, pc, apiKey, fetchStatus, games, ranked, processedGames, file,
                 exitCode, stages, mapArgs, mapResult>>

\* fetch(...) rejects: caught, stub
fetchThrows ==
  /\ pc = "awaiting"
  /\ fetchReturns(getStubGames, "threw")
  /\ UNCHANGED requests

\* !gamesResponse.ok: thrown and caught, stub
responseNotOk ==
  /\ pc = "awaiting"
  /\ fetchReturns(getStubGames, "notok")
  /\ UNCHANGED requests

\* gamesResponse.json() rejects: caught, stub
jsonFails ==
  /\ pc = "awaiting"
  /\ fetchReturns(getStubGames, "badbody")
  /\ UNCHANGED requests

\* the response is ok and its body parses to an array of payloads
responseOk ==
  /\ pc = "awaiting"
  /\ \E body \in Bodies : fetchReturns(body, "ok")
  /\ UNCHANGED requests

\* the same step with the body drawn from the short responses
responseOkShort ==
  /\ pc = "awaiting"
  /\ \E body \in ShortBodies : fetchReturns(body, "ok")
  /\ UNCHANGED requests

\* noGames without the length test: `!games` alone, false of every array
noGames_noLengthTest(gs) == FALSE

\* !games || games.length === 0
noGames(gs) == Len(gs) = 0

\* console.error('No games found'); process.exit(1)
noGamesExit ==
  /\ pc = "fetched"
  /\ noGames(games)
  /\ pc' = "exit"
  /\ exitCode' = <<1>>
  /\ UNCHANGED <<frontVars, swVars, apiKey, requests, fetchStatus, games, ranked, processedGames,
                 file, stages, mapArgs, mapResult>>

\* const ranked = rankGames(games)
rankStep ==
  /\ pc = "fetched"
  /\ ~noGames(games)
  /\ ranked' = rankGames(games)
  /\ pc' = "ranked"
  /\ stages' = Append(stages, "rankGames")
  /\ UNCHANGED <<frontVars, swVars, apiKey, requests, fetchStatus, games, processedGames, file,
                 exitCode, mapArgs, mapResult>>

\* ranked.map(game => mapToSchema(generateRecap(game), {})); generateRecap
\* writes its text fields into the ranked record itself
processStep ==
  /\ pc = "ranked"
  /\ \E seed \in Seeds :
       LET withRecap == [i \in 1 .. Len(ranked) |->
                           generateRecap(ranked[i], (seed + i) % Len(whyOptions(ranked[i])))]
       IN  /\ ranked' = withRecap
           /\ processedGames' = [i \in 1 .. Len(ranked) |->
                                   mapToSchema(withRecap[i], EmptyLookup)]
  /\ pc' = "processed"
  /\ stages' = Append(stages, "generateRecap+mapToSchema")
  /\ UNCHANGED <<frontVars, swVars, apiKey, requests, fetchStatus, games, file, exitCode,
                 mapArgs, mapResult>>

\* writeFileSync(outputPath, JSON.stringify(draft)); the run then ends
writeStep ==
  /\ pc = "processed"
  /\ file' = Append(file, [path |-> outputPath, draft |-> draftOf(processedGames)])
  /\ pc' = "done"
  /\ exitCode' = <<0>>
  /\ stages' = Append(stages, "writeFileSync")
  /\ UNCHANGED <<frontVars, swVars, apiKey, requests, fetchStatus, games, ranked, processedGames,
                 mapArgs, mapResult>>

\* a direct call that writes the abbreviation's upper case back into the
\* record it was given
callMapToSchema_mutating ==
  /\ pc \in {"call", "returned"}
  /\ Len(mapResult) < MaxCalls
  /\ mapResult' = Append(mapResult,
                         mapToSchema(mapArgs[1].game, mapArgs[1].teamData))
  /\ mapArgs' = <<[mapArgs[1] EXCEPT !.game.home_team = toUpperCase(@)]>>
  /\ pc' = "returned"
  /\ UNCHANGED <<frontVars, swVars, apiKey, requests, fetchStatus, games, ranked, processedGames,
                 file, exitCode, stages>>

\* a direct call mapToSchema(game, teamData); the same arguments can be
\* mapped again, the results are kept in call order
callMapToSchema ==
  /\ pc \in {"call", "returned"}
  /\ Len(mapResult) < MaxCalls
  /\ mapResult' = Append(mapResult,
                         mapToSchema(mapArgs[1].game, mapArgs[1].teamData))
  /\ mapArgs' = mapArgs
  /\ pc' = "returned"
  /\ UNCHANGED <<frontVars, swVars, apiKey, requests, fetchStatus, games, ranked, processedGames,
                 file, exitCode, stages>>

Next ==
  \/ fetchGamesNoKey
  \/ fetchGamesRequest
  \/ fetchThrows
  \/ responseNotOk
  \/ jsonFails
  \/ responseOk
  \/ noGamesExit
  \/ rankStep
  \/ processStep
  \/ writeStep
  \/ callMapToSchema

Spec == Init /\ [][Next]_vars

\* one run over the short responses
NextRun ==
  \/ fetchGamesNoKey
  \/ fetchGamesRequest
  \/ fetchThrows
  \/ responseNotOk
  \/ jsonFails
  \/ responseOkShort
  \/ noGamesExit
  \/ rankStep
  \/ processStep
  \/ writeStep

\* a started run keeps running: the awaited request settles and every
\* synchronous step that is enabled is taken
FairSpec == InitRun /\ [][NextRun]_vars /\ WF_vars(NextRun)

TypeOK ==
  /\ pc \in {"start", "awaiting", "fetched", "ranked", "processed", "done",
             "exit", "call", "returned", "idle"}
  /\ requests \in 0 .. 1
  /\ Len(ranked) <= TopN

(***************************************************************************)
(* Vocabulary of the properties.                                           *)
(***************************************************************************)
\* an eligible record: completed, both scores present and non-negative
Eligible(g) ==
  /\ g.completed = Bool(TRUE)
  /\ g.home_points.t = "num" /\ g.home_points.v >= 0
  /\ g.away_points.t = "num" /\ g.away_points.v >= 0

EligiblePositions(gs) == { i \in 1 .. Len(gs) : Eligible(gs[i]) }

EligibleCount(gs) == Cardinality(EligiblePositions(gs))

\* rankGames has returned in this run
Ranked == pc \in {"ranked", "processed", "done"}

\* the position in the fetched response of the payload a record came from
PositionOf(r) == CHOOSE i \in 1 .. Len(games) : games[i].id = r.id

\* periods played, regulation when the payload does not say
PeriodsPlayed(g) == IF g.periods.t = "num" THEN g.periods.v ELSE 4

\* the rank score as the sum of the bonuses the ranking rules list
ListedScore(diff, total, conference, periods) ==
  LET close == IF diff <= 8 THEN 6 ELSE 0
      veryClose == IF diff <= 3 THEN 4 ELSE 0
      tie == IF diff = 0 THEN 3 ELSE 0
      shootout == IF total > 70 THEN 3 ELSE 0
      bigShootout == IF total > 80 THEN 2 ELSE 0
      conf == IF conference THEN 1 ELSE 0
      overtime == IF periods <= 4 THEN 0 ELSE IF periods = 5 THEN 4 ELSE 6
  IN  close + veryClose + tie + shootout + bigShootout + conf + overtime

\* C1: every record rankGames returns is eligible: completed, with both
\* scores present and non-negative.
C1_RankedAreEligible ==
  \A i \in 1 .. Len(ranked) : Eligible(ranked[i])

\* C2: when the fetched sequence is non-empty but holds no eligible record
\* the run aborts with a non-zero exit and writes nothing; no document with
\* an empty top_games list is ever written.
C2_NoEligibleGamesAborts ==
  /\ (fetchStatus # "none" /\ games # <<>> /\ EligibleCount(games) = 0)
       => (file = <<>> /\ pc # "done" /\ (pc = "exit" => exitCode = <<1>>))
  /\ \A k \in 1 .. Len(file) : file[k].draft.top_games # <<>>

\* C3: the output of rankGames has min(5, eligibleCount) records.
C3_LengthIsMinOfFiveAndEligible ==
  Ranked => Len(ranked) = Min(5, EligibleCount(games))

C5_TopOfStableSortOfEligible ==
  Ranked =>
    LET E == EligiblePositions(games)
        out == { PositionOf(ranked[k]) : k \in 1 .. Len(ranked) }
        score(i) == scoreGame(games[i])._rankScore
    IN  /\ Len(ranked) = Min(5, Cardinality(E))
        /\ \A k \in 1 .. Len(ranked) : PositionOf(ranked[k]) \in E
        /\ \A k, l \in 1 .. Len(ranked) :
             k < l =>
               /\ ranked[k]._rankScore >= ranked[l]._rankScore
               /\ ranked[k]._rankScore = ranked[l]._rankScore
                    => PositionOf(ranked[k]) < PositionOf(ranked[l])
        /\ \A e \in E \ out : \A k \in 1 .. Len(ranked) :
             /\ score(e) <= ranked[k]._rankScore
             /\ score(e) = ranked[k]._rankScore => PositionOf(ranked[k]) < e

\* the fetch could not be used: no credential, a rejected request, a
\* response that is not ok, or a body that does not parse
FetchFailed == fetchStatus \in {"nokey", "threw", "notok", "badbody"}

\* games is the fixed single-record stub dataset
IsStubDataset(gs) ==
  /\ Len(gs) = 1
  /\ gs[1].home_team = FresnoState /\ gs[1].away_team = GeorgiaSouthern
  /\ gs[1].home_points = Num(28) /\ gs[1].away_points = Num(24)
  /\ gs[1].completed = Bool(TRUE)

\* a draft with exactly n top games has been written
WrittenWithTopGames(n) ==
  Len(file) = 1 /\ Len(file[1].draft.top_games) = n

\* C6: when the upstream fetch cannot be used fetchGames returns the stub
\* dataset, the run never aborts, and a draft with exactly one top game is
\* eventually written.
C6_FetchFailureFallsBackToStub ==
  /\ [](FetchFailed => (IsStubDataset(games) /\ pc # "exit"))
  /\ (FetchFailed ~> (pc = "done" /\ exitCode = <<0>> /\ WrittenWithTopGames(1)))

\* C6 witness: a run whose response body did not parse has written its
\* one-game draft.
C6_Witness ==
  /\ fetchStatus = "badbody"
  /\ pc = "done"
  /\ WrittenWithTopGames(1)
  /\ file[1].draft.top_games[1].home.name = FresnoState

\* C7: a successful fetch of zero payloads makes the run exit with status 1
\* before ranking, synthesis or mapping happen, and nothing is written.
C7_EmptyFetchFailsFast ==
  /\ []((fetchStatus = "ok" /\ games = <<>>) =>
          /\ pc \in {"fetched", "exit"}
          /\ stages = <<"fetchGames">>
          /\ file = <<>>
          /\ pc = "exit" => exitCode = <<1>>)
  /\ [][(fetchStatus = "ok" /\ games = <<>> /\ pc = "fetched")
          => (pc' = "exit" /\ exitCode' = <<1>>)]_vars

\* C7 witness: a run that fetched an empty array has exited with status 1.
C7_Witness ==
  /\ fetchStatus = "ok"
  /\ games = <<>>
  /\ pc = "exit"
  /\ exitCode = <<1>>

IsPrefix(p, s) == Len(p) <= Len(s) /\ SubSeq(s, 1, Len(p)) = p

\* sentence 1 of the recap has `team` in the winner's place
RecapNamesWinner(r, team) ==
  \/ IsPrefix(team \o <<" survived ">>, r.recap_2s)
  \/ IsPrefix(team \o <<" pulled out a narrow ">>, r.recap_2s)
  \/ IsPrefix(team \o <<" took control ">>, r.recap_2s)
  \/ IsPrefix(<<"In a high-scoring affair, ">> \o team \o <<" edged ">>, r.recap_2s)

Synthesized == pc \in {"processed", "done"}

\* C8 as stated: the winner side is 'home' when homeScore >= awayScore, so a
\* tie resolves to 'home' and the recap of a tied game names the home team.
C8_TieResolvesToHome ==
  \A i \in 1 .. Len(ranked) :
    Eligible(ranked[i]) =>
      LET r == ranked[i]
      IN  /\ r._winner = (IF r.home_points.v >= r.away_points.v
                          THEN "home" ELSE "away")
          /\ (Synthesized /\ r.home_points.v = r.away_points.v)
               => RecapNamesWinner(r, r.home_team)

\* C8 amended: the winner side is 'home' only when homeScore is strictly
\* greater and 'away' otherwise, so a tie resolves to 'away' and the recap of
\* a tied game names the away team as the winner.
C8_WinnerIsHomeOnlyWhenAhead ==
  \A i \in 1 .. Len(ranked) :
    Eligible(ranked[i]) =>
      LET r == ranked[i]
      IN  /\ r._winner = (IF r.home_points.v > r.away_points.v
                          THEN "home" ELSE "away")
          /\ (Synthesized /\ r.home_points.v > r.away_points.v)
               => RecapNamesWinner(r, r.home_team)
          /\ (Synthesized /\ r.home_points.v <= r.away_points.v)
               => (RecapNamesWinner(r, r.away_team)
                     /\ ~RecapNamesWinner(r, r.home_team))

\* C8 witness: a tied 35-35 game was synthesized with the away side as winner.
C8_Witness ==
  /\ pc = "processed"
  /\ \E i \in 1 .. Len(ranked) :
       /\ Eligible(ranked[i])
       /\ ranked[i].home_points = Num(35) /\ ranked[i].away_points = Num(35)
       /\ ranked[i]._winner = "away"
       /\ RecapNamesWinner(ranked[i], ranked[i].away_team)

\* u is the upper-case form of the character c
IsUpperCaseOf(c, u) ==
  \/ \E i \in 1 .. Len(LowerCase) : LowerCase[i] = c /\ UpperCase[i] = u
  \/ (\A i \in 1 .. Len(LowerCase) : LowerCase[i] # c) /\ u = c

\* abbr is the first n characters of name in upper case
IsUpperCasePrefix(abbr, name, n) ==
  /\ Len(abbr) = n
  /\ Len(name) >= n
  /\ \A j \in 1 .. n : IsUpperCaseOf(name[j], abbr[j])

\* the two sides of a published game
SidesOf(p) == {p.home, p.away}

\* C9 as stated, for one published side under the lookup td
SideAsStated(side, td) ==
  /\ IF side.name \in DOMAIN td
     THEN side.abbr = td[side.name].abbr
     ELSE IsUpperCasePrefix(side.abbr, side.name, 4)
  /\ side.logo = (IF side.name \in DOMAIN td THEN td[side.name].logo ELSE <<>>)

\* C9 as stated: abbr is the lookup's abbr when the lookup has an entry and
\* otherwise the 4-character upper-case form of the first 4 characters of the
\* name; logo is the lookup's logo or the empty string; generateDraft, with
\* its empty lookup, publishes the fallbacks.
C9_FourCharacterFallback ==
  /\ pc = "returned" =>
       \A side \in SidesOf(mapResult[1]) :
         SideAsStated(side, mapArgs[1].teamData)
  /\ \A k \in 1 .. Len(processedGames) :
       \A side \in SidesOf(processedGames[k]) : SideAsStated(side, EmptyLookup)

\* C9 amended, for one published side under the lookup td
SideAsAmended(side, td) ==
  /\ IF side.name \in DOMAIN td /\ td[side.name].abbr # <<>>
     THEN side.abbr = td[side.name].abbr
     ELSE IsUpperCasePrefix(side.abbr, side.name, Min(4, Len(side.name)))
  /\ side.logo = (IF side.name \in DOMAIN td THEN td[side.name].logo ELSE <<>>)

\* C9 amended: abbr is the lookup's abbr when the lookup has an entry with a
\* non-empty abbr, and otherwise the upper-case form of the first 4
\* characters of the name, of the whole name when it is shorter; logo is the
\* lookup's logo or the empty string; generateDraft, with its empty lookup,
\* publishes the fallbacks ("Fresno State" -> "FRES", "").
C9_AbbrAndLogoFallback ==
  /\ pc = "returned" =>
       /\ mapResult[1].home.name = mapArgs[1].game.home_team
       /\ mapResult[1].away.name = mapArgs[1].game.away_team
       /\ \A side \in SidesOf(mapResult[1]) :
            SideAsAmended(side, mapArgs[1].teamData)
  /\ \A k \in 1 .. Len(processedGames) :
       /\ processedGames[k].home.name = ranked[k].home_team
       /\ processedGames[k].away.name = ranked[k].away_team
       /\ \A side \in SidesOf(processedGames[k]) :
            /\ SideAsAmended(side, EmptyLookup)
            /\ side.logo = <<>>
            /\ side.name = FresnoState => side.abbr = <<"F", "R", "E", "S">>

\* C9 witness: mapToSchema returned for a game of "UCF", a name of 3
\* characters the lookup has no entry for, while the away side took the
\* lookup's abbr.
C9_Witness ==
  /\ pc = "returned"
  /\ mapResult[1].home.name = UCF
  /\ UCF \notin DOMAIN mapArgs[1].teamData
  /\ mapResult[1].home.abbr = <<"U", "C", "F">>
  /\ Rice \in DOMAIN mapArgs[1].teamData
  /\ mapResult[1].away.abbr = <<"F", "S", "U">>

IsNumeral(s) ==
  /\ Len(s) >= 1
  /\ \A i \in 1 .. Len(s) : \E d \in 1 .. Len(Digits) : Digits[d] = s[i]
  /\ Len(s) > 1 => s[1] # "0"

DigitValue(c) == (CHOOSE d \in 1 .. Len(Digits) : Digits[d] = c) - 1

RECURSIVE NumeralValue(_)
NumeralValue(s) ==
  IF s = <<>> THEN 0
  ELSE 10 * NumeralValue(SubSeq(s, 1, Len(s) - 1)) + DigitValue(s[Len(s)])

\* part is the decimal numeral of the non-negative integer n
IsNumeralOf(part, n) == IsNumeral(part) /\ NumeralValue(part) = n /\ n >= 0

\* str is left, one en-dash, right, with left and right as l and r tell
SplitsAtEnDash(str, l(_), r(_)) ==
  /\ Cardinality({ i \in 1 .. Len(str) : str[i] = EnDash }) = 1
  /\ \A i \in 1 .. Len(str) :
       str[i] = EnDash =>
         /\ l(SubSeq(str, 1, i - 1))
         /\ r(SubSeq(str, i + 1, Len(str)))

\* the record {home 28, away 24, completed, 4 periods, non-conference}
IsScenarioGame(r) ==
  /\ r.home_points = Num(28) /\ r.away_points = Num(24)
  /\ r.completed = Bool(TRUE)
  /\ PeriodsPlayed(r) = 4
  /\ ~Truthy(r.conference_game)

ScenarioFinal == <<"2", "8", EnDash, "2", "4">>

C11_SingleFetchAttempt ==
  /\ [](requests <= 1 /\ (~apiKey => requests = 0))
  /\ [][requests' # requests => (pc = "start" /\ apiKey /\ requests = 0)]_vars
  /\ [][(pc = "awaiting" /\ pc' # "awaiting")
          => (pc' = "fetched" /\ requests' = requests)]_vars
  /\ [](FetchFailed => (requests <= 1 /\ pc # "awaiting"))

\* C11 witness: the one request of a run was rejected and the run is at the
\* stub dataset.
C11_Witness ==
  /\ fetchStatus = "threw"
  /\ requests = 1
  /\ pc = "fetched"
  /\ IsStubDataset(games)


(***************************************************************************)
(* The recap texts, read back from the synthesized record.                 *)
(***************************************************************************)
\* the three classification flags, from the derived fields of the record
FlagOvertime(r) == r.periods.t = "num" /\ r.periods.v > 4

FlagClose(r) == r._scoreDiff <= 8

FlagShootout(r) == r._totalPoints > 70

WinnerName(r) == IF r._winner = "home" THEN r.home_team ELSE r.away_team

LoserName(r) == IF r._winner = "home" THEN r.away_team ELSE r.home_team

Sentence2Openers ==
  {"Both teams' offenses moved the ball effectively, but ",
   "The decisive moments came "}

\* where sentence 2 starts in a recap
Sentence2Start(recap) ==
  CHOOSE i \in 1 .. Len(recap) : recap[i] \in Sentence2Openers

Sentence1Of(recap) == SubSeq(recap, 1, Sentence2Start(recap) - 2)

Sentence2Of(recap) == SubSeq(recap, Sentence2Start(recap), Len(recap))

\* the phrases that tell the four branches of sentence 1 apart
Sentence1Markers ==
  {" survived ", " edged ", " pulled out a narrow ", " took control "}

MarkersIn(s) == { s[i] : i \in 1 .. Len(s) } \cap Sentence1Markers

HasChunk(s, c) == \E i \in 1 .. Len(s) : s[i] = c

\* s is prefix, then the numeral of n, then suffix
IsAroundNumeral(s, prefix, n, suffix) ==
  /\ Len(s) > Len(prefix) + Len(suffix)
  /\ SubSeq(s, 1, Len(prefix)) = prefix
  /\ SubSeq(s, Len(s) - Len(suffix) + 1, Len(s)) = suffix
  /\ IsNumeralOf(SubSeq(s, Len(prefix) + 1, Len(s) - Len(suffix)), n)

\* C12: sentence 1 comes from exactly one branch, overtime first, then close
\* and shootout (with 'point' for a margin of 1 and 'points' otherwise), then
\* close, then the dominant win; the recap is sentence 1, a space, sentence 2.
C12_Sentence1Precedence ==
  Synthesized =>
    \A i \in 1 .. Len(ranked) :
      LET r == ranked[i]
          s1 == Sentence1Of(r.recap_2s)
          W == WinnerName(r)
          L == LoserName(r)
      IN  /\ Cardinality({ k \in 1 .. Len(r.recap_2s) :
                             r.recap_2s[k] \in Sentence2Openers }) = 1
          /\ Sentence2Start(r.recap_2s) > 2
          /\ r.recap_2s[Sentence2Start(r.recap_2s) - 1] = " "
          /\ Cardinality(MarkersIn(s1)) = 1
          /\ IF FlagOvertime(r)
             THEN s1 = W \o <<" survived ",
                               IF FlagShootout(r)
                               THEN "a back-and-forth shootout"
                               ELSE "a tight contest",
                               " that required overtime to decide.">>
             ELSE IF FlagClose(r) /\ FlagShootout(r)
             THEN /\ IsPrefix(<<"In a high-scoring affair, ">> \o W
                                \o <<" edged ">> \o L \o <<" by ">>, s1)
                  /\ IsAroundNumeral(
                       s1,
                       <<"In a high-scoring affair, ">> \o W \o <<" edged ">>
                         \o L \o <<" by ">>,
                       r._scoreDiff,
                       IF r._scoreDiff = 1 THEN <<" point", ".">>
                       ELSE <<" point", "s", ".">>)
             ELSE IF FlagClose(r)
             THEN IsAroundNumeral(s1, W \o <<" pulled out a narrow ">>,
                                  r._scoreDiff,
                                  <<"-point victory over ">> \o L \o <<".">>)
             ELSE s1 = W \o <<" took control ",
                               IF FlagShootout(r) THEN "in the shootout"
                               ELSE "early",
                               " and maintained their lead throughout.">>

\* C12 witness: a 36-35 game in regulation, close and a shootout, was
\* synthesized with the singular 'point'.
C12_Witness ==
  /\ pc = "processed"
  /\ \E i \in 1 .. Len(ranked) :
       /\ ranked[i].home_points = Num(36) /\ ranked[i].away_points = Num(35)
       /\ ~FlagOvertime(ranked[i])
       /\ HasChunk(ranked[i].recap_2s, " edged ")
       /\ HasChunk(ranked[i].recap_2s, " point")
       /\ ~HasChunk(ranked[i].recap_2s, "s")

\* C13: one_stat comes from exactly one branch: overtime gives the period
\* count, else a shootout the combined points, else a close game the margin,
\* else the winner-by-margin phrase.
C13_OneStatPrecedence ==
  Synthesized =>
    \A i \in 1 .. Len(ranked) :
      LET r == ranked[i]
          stat == r.one_stat
      IN  IF FlagOvertime(r)
          THEN IsAroundNumeral(stat, <<>>, r.periods.v, <<" periods total">>)
          ELSE IF FlagShootout(r)
          THEN IsAroundNumeral(stat, <<"Combined ">>, r._totalPoints, <<" points">>)
          ELSE IF FlagClose(r)
          THEN IsAroundNumeral(stat, <<>>, r._scoreDiff, <<"-point margin">>)
          ELSE IsAroundNumeral(stat, WinnerName(r) \o <<" won by ">>,
                               r._scoreDiff, <<>>)

\* C13 witness: a 36-35 game in regulation, close and a shootout, reports
\* its 71 combined points.
C13_Witness ==
  /\ pc = "processed"
  /\ \E i \in 1 .. Len(ranked) :
       /\ FlagClose(ranked[i]) /\ FlagShootout(ranked[i])
       /\ ~FlagOvertime(ranked[i])
       /\ ranked[i].one_stat = <<"Combined ", "7", "1", " points">>

\* C15: sentence 2 of a shootout credits the winner with 'more stops' when
\* the home side won and says the loser 'fell short on crucial drives' when
\* the away side won; otherwise it places the decisive moments 'late in the
\* game' for a close game and 'when the winning team established momentum'
\* for any other.
C15_Sentence2ByShootoutCloseWinner ==
  Synthesized =>
    \A i \in 1 .. Len(ranked) :
      LET r == ranked[i]
          s2 == Sentence2Of(r.recap_2s)
      IN  s2 = (IF FlagShootout(r)
                THEN IF r._winner = "home"
                     THEN <<"Both teams' offenses moved the ball effectively, but ">>
                            \o WinnerName(r) \o <<" managed to get more stops", ".">>
                     ELSE <<"Both teams' offenses moved the ball effectively, but ">>
                            \o LoserName(r) \o <<" fell short on crucial drives", ".">>
                ELSE IF FlagClose(r)
                     THEN <<"The decisive moments came ", "late in the game", ".">>
                     ELSE <<"The decisive moments came ",
                            "when the winning team established momentum", ".">>)

\* C15 witness: a 36-45 shootout won by the away side says the home side
\* fell short on crucial drives.
C15_Witness ==
  /\ pc = "processed"
  /\ \E i \in 1 .. Len(ranked) :
       /\ ranked[i].home_points = Num(36) /\ ranked[i].away_points = Num(45)
       /\ ranked[i]._winner = "away"
       /\ Sentence2Of(ranked[i].recap_2s) =
            <<"Both teams' offenses moved the ball effectively, but ">>
              \o ranked[i].home_team \o <<" fell short on crucial drives", ".">>


GenericRationale ==
  <<"Both teams showed resilience, but execution in key moments made the difference.">>

ShootoutRationale(flag) ==
  IF flag
  THEN <<"The high-scoring affair showcased explosive offenses struggling to get defensive stops.">>
  ELSE <<"Defensive discipline and limiting mistakes proved critical in the outcome.">>

CloseRationale(flag) ==
  IF flag
  THEN <<"A single big play or stop swung momentum in this tightly contested game.">>
  ELSE <<"The winner established control and never let their opponent back in the game.">>

\* the candidate rationales of a record, from its derived fields
Candidates(r) ==
  {GenericRationale, ShootoutRationale(FlagShootout(r)), CloseRationale(FlagClose(r))}

\* C14: why_it_mattered of every synthesized record is one of 3 distinct
\* candidates fixed by (isShootout, isClose), and before synthesis every one
\* of the 3 can still be drawn for every ranked record.
C14_RationaleAmongThreeCandidates ==
  /\ Synthesized =>
       \A i \in 1 .. Len(ranked) :
         /\ Cardinality(Candidates(ranked[i])) = 3
         /\ ranked[i].why_it_mattered \in Candidates(ranked[i])
         /\ processedGames[i].why_it_mattered = ranked[i].why_it_mattered
  /\ pc = "ranked" =>
       \A i \in 1 .. Len(ranked) :
         \A c \in Candidates(ranked[i]) :
           \E draw \in 0 .. Len(whyOptions(ranked[i])) - 1 :
             generateRecap(ranked[i], draw).why_it_mattered = c

\* C14 witness: a shootout that is not close was given the rationale chosen
\* by its isClose flag.
C14_Witness ==
  /\ pc = "processed"
  /\ \E i \in 1 .. Len(ranked) :
       /\ FlagShootout(ranked[i]) /\ ~FlagClose(ranked[i])
       /\ ranked[i].why_it_mattered = CloseRationale(FALSE)


PublishedGameFields ==
  {"home", "away", "final", "recap_2s", "one_stat", "why_it_mattered", "tags",
   "ids"}

MaxLoads == 2

\* days since August 1 on the days the page is opened: before the season
DaySet == {-10}

Max(a, b) == IF a > b THEN a ELSE b

\* State.resolveWeekNumber, from the days since season start
resolveWeekNumber(diffDays) == Max(1, Min((diffDays \div 7) + 1, 17))

\* State.dataPath(scope, week)
dataPath(scope, week) ==
  LET weekNum == IF week = WeekCurrent THEN resolveWeekNumber(today) ELSE week.v
  IN  <<"/data/">> \o scope \o <<"/week_">> \o padStart2(NumStr(weekNum))
        \o <<".json">>

\* State.setScope(scope): the State afterwards and the value returned
setScope_anyValue(S, scope) ==
  [S |-> [S EXCEPT !._scope = scope], ret |-> TRUE]

setScope(S, scope) ==
  IF scope = <<"cfb">> \/ scope = <<"nfl">>
  THEN [S |-> [S EXCEPT !._scope = scope], ret |-> TRUE]
  ELSE [S |-> S, ret |-> FALSE]

\* State.setWeek(week)
setWeek(S, week) == [S EXCEPT !._week = week]

toLowerChar(c) ==
  IF \E i \in 1 .. Len(UpperCase) : UpperCase[i] = c
  THEN LowerCase[CHOOSE i \in 1 .. Len(UpperCase) : UpperCase[i] = c]
  ELSE c

toLowerCase(s) == [i \in 1 .. Len(s) |-> toLowerChar(s[i])]

\* State.setSearchTerm(term)
setSearchTerm(S, term) == [S EXCEPT !._searchTerm = toLowerCase(term)]

\* State.setData(data)
setData(S, data) == [S EXCEPT !._data = data]

\* parseInt of a numeral
RECURSIVE parseInt(_)
parseInt(str) ==
  IF Len(str) = 0 THEN 0
  ELSE 10 * parseInt(SubSeq(str, 1, Len(str) - 1))
         + (CHOOSE d \in 0 .. 9 : Digits[d + 1] = str[Len(str)])

\* the document served at a path
Doc(path) == [path |-> path]

FallbackPath1 == <<"/data/", "week_00.example.json">>

FallbackPath2 == <<"data/week_00.example.json">>

\* the values of the scope selector's change event; "mlb" stands for any
\* value State does not know
ScopeValues == {<<"cfb">>, <<"nfl">>, <<"mlb">>}

\* populateWeekSelector: 'current', the weeks so far and 0 for the example
WeekValues ==
  {<<"current">>} \cup { NatStr(i) : i \in 0 .. resolveWeekNumber(today) }

SearchValues == {<<"U", "C", "F">>}

\* renderAll(data) with `data` null (<<>>) or a document, as the sections
\* then show it
renderAll(data, S) ==
  IF data = <<>>
  THEN [view |-> "noDraft", doc |-> <<>>, term |-> <<>>]
  ELSE [view |-> "sections", doc |-> data, term |-> S._searchTerm]

\* loadAndRender up to its `await loadData(path)`
loadAndRenderStart(S, value) ==
  [kind |-> "loadAndRender", event |-> value, week |-> S._week,
   path |-> dataPath(S._scope, S._week), stage |-> "data"]

RemoveAt(seq, i) == SubSeq(seq, 1, i - 1) \o SubSeq(seq, i + 1, Len(seq))

\* init() has run: initialize is waiting for the current week's file
FrontInit ==
  /\ RunIdle
  /\ SwIdle
  /\ today \in DaySet
  /\ State = StateInit
  /\ loads = <<[kind |-> "initialize", event |-> <<>>, week |-> WeekCurrent,
                path |-> dataPath(StateInit._scope, StateInit._week),
                stage |-> "data"]>>
  /\ shown = [view |-> "static", doc |-> <<>>, term |-> <<>>]
  /\ timer = FALSE

\* handleScopeChange: setScope, its result ignored, then loadAndRender
handleScopeChange ==
  /\ Len(loads) < MaxLoads
  /\ \E value \in ScopeValues :
       LET S1 == setScope(State, value).S
       IN  /\ State' = S1
           /\ loads' = Append(loads, loadAndRenderStart(S1, value))
  /\ UNCHANGED <<shown, timer, today, runVars, mapArgs, mapResult, swVars>>

\* handleWeekChange: setWeek, then loadAndRender
handleWeekChange ==
  /\ Len(loads) < MaxLoads
  /\ \E value \in WeekValues :
       LET week == IF value = <<"current">> THEN WeekCurrent
                   ELSE Num(parseInt(value))
           S1 == setWeek(State, week)
       IN  /\ State' = S1
           /\ loads' = Append(loads, loadAndRenderStart(S1, value))
  /\ UNCHANGED <<shown, timer, today, runVars, mapArgs, mapResult, swVars>>

\* handleSearch: setSearchTerm and the debounce timer set anew
handleSearch ==
  /\ \E term \in SearchValues : State' = setSearchTerm(State, term)
  /\ timer' = TRUE
  /\ UNCHANGED <<loads, shown, today, runVars, mapArgs, mapResult, swVars>>

\* the timer fires: Render.applySearchFilter
applySearchFilter ==
  /\ timer
  /\ timer' = FALSE
  /\ shown' = IF State._data = <<>> THEN shown
              ELSE [view |-> "sections", doc |-> State._data,
                    term |-> State._searchTerm]
  /\ UNCHANGED <<State, loads, today, runVars, mapArgs, mapResult, swVars>>

\* the response of a load is ok and parses: loadData does State.setData,
\* the caller renders the document
loadDataOk ==
  \E i \in 1 .. Len(loads) :
    LET data == <<Doc(loads[i].path)>>
        S1 == setData(State, data)
    IN  /\ State' = S1
        /\ shown' = renderAll(data, S1)
        /\ loads' = RemoveAt(loads, i)
        /\ UNCHANGED <<timer, today, runVars, mapArgs, mapResult, swVars>>

\* whether a load that got no document goes on to the example file
goesToFallback(l) ==
  \/ l.stage = "fallback1"
  \/ l.stage = "data" /\ (l.kind = "initialize" \/ StrictEq(l.week, 0))

\* loadData returns null and nothing is left to try: renderAll(null)
loadDataFails ==
  \E i \in 1 .. Len(loads) :
    /\ ~goesToFallback(loads[i])
    /\ shown' = renderAll(<<>>, State)
    /\ loads' = RemoveAt(loads, i)
    /\ UNCHANGED <<State, timer, today, runVars, mapArgs, mapResult, swVars>>

\* loadData returns null and loadFallback tries the next example path
loadDataFallsBack ==
  \E i \in 1 .. Len(loads) :
    /\ goesToFallback(loads[i])
    /\ loads' = [loads EXCEPT
                   ![i].stage = IF @ = "data" THEN "fallback1" ELSE "fallback2",
                   ![i].path = IF loads[i].stage = "data" THEN FallbackPath1
                               ELSE FallbackPath2]
    /\ UNCHANGED <<State, shown, timer, today, runVars, mapArgs, mapResult,
                   swVars>>

FrontNext ==
  \/ handleScopeChange
  \/ handleWeekChange
  \/ handleSearch
  \/ applySearchFilter
  \/ loadDataOk
  \/ loadDataFails
  \/ loadDataFallsBack

FrontSpec == FrontInit /\ [][FrontNext]_vars

FrontTypeOK ==
  /\ Len(loads) <= MaxLoads
  /\ shown.view \in {"static", "noDraft", "sections"}
  /\ Len(State._data) <= 1


(***************************************************************************)
(* The page, as its user sees it.                                          *)
(***************************************************************************)
\* the file of the selection State holds
SelectedPath == dataPath(State._scope, State._week)

\* the example documents belong to no selection
ExampleDocs == {Doc(FallbackPath1), Doc(FallbackPath2)}

\* the documents a load of the current selection can end with
DocsOfSelection == {Doc(SelectedPath)} \cup ExampleDocs

\* C17: once no load is in flight, the sections show the selection State
\* holds (its document, the example, or 'Draft not ready yet') and the
\* document they show is the one State stores.
C17_LatestSelectionWins ==
  (loads = <<>>) =>
    /\ shown.view \in {"noDraft", "sections"}
    /\ shown.view = "sections" =>
         /\ shown.doc[1] \in DocsOfSelection
         /\ State._data = shown.doc

\* C18: with no load in flight and 'Draft not ready yet' shown, State stores
\* no document of another selection, and the search filter then leaves the
\* sections as they are or renders a document of the current selection.
C18_NoStaleDataBehindNoDraft ==
  /\ []((loads = <<>> /\ shown.view = "noDraft")
          => \A i \in 1 .. Len(State._data) :
               State._data[i] \in DocsOfSelection)
  /\ [][(loads = <<>> /\ timer /\ ~timer' /\ shown.view = "noDraft")
          => \/ shown' = shown
             \/ \A i \in 1 .. Len(shown'.doc) :
                  shown'.doc[i] \in DocsOfSelection]_vars

ValidScopes == {<<"cfb">>, <<"nfl">>}

\* C19: the scope State holds is always 'cfb' or 'nfl'; setScope with any
\* other value returns false and leaves State as it is, setScope with 'cfb'
\* or 'nfl' returns true and changes the scope alone, and so does the scope
\* selector's handler.
C19_ScopeIsCfbOrNfl ==
  /\ [](State._scope \in ValidScopes)
  /\ [](\A value \in ScopeValues :
          LET r == setScope(State, value)
          IN  IF value \in ValidScopes
              THEN /\ r.ret
                   /\ r.S._scope = value
                   /\ r.S._week = State._week
                   /\ r.S._data = State._data
                   /\ r.S._searchTerm = State._searchTerm
              ELSE ~r.ret /\ r.S = State)
  /\ [][\A value \in ScopeValues :
          (Len(loads') = Len(loads) + 1 /\ loads'[Len(loads')].event = value)
            => /\ State'._scope = (IF value \in ValidScopes THEN value
                                   ELSE State._scope)
               /\ State'._week = State._week
               /\ State'._data = State._data
               /\ State'._searchTerm = State._searchTerm]_vars

\* C19 witness: the selector sent a value State does not know while the
\* scope was 'nfl'; the load it started is for 'nfl'.
C19_Witness ==
  /\ State._scope = <<"nfl">>
  /\ \E i \in 1 .. Len(loads) :
       /\ loads[i].event = <<"mlb">>
       /\ loads[i].path = dataPath(<<"nfl">>, State._week)


(***************************************************************************)
(* The service worker (the script in src/API_SETUP.md, lines 126-214),     *)
(* installed and activated.  A request is an origin and a pathname; a      *)
(* response is its ok flag and the version of the body it carries.  An     *)
(* event is one fetch event: the request, the branch of the handler that   *)
(* took it, where that branch is waiting, what cache.match gave, what the  *)
(* network gave and what the page was answered.                            *)
(***************************************************************************)
\* fetch events of one session
MaxEvents == 3

\* body versions the server publishes
Versions == 1 .. 2

Response(ok, v) == [kind |-> "response", ok |-> ok, v |-> v]

\* a rejected promise, or respondWith(undefined)
NoResponse == [kind |-> "error", ok |-> FALSE, v |-> 0]

NetworkResponses ==
  { Response(TRUE, v) : v \in Versions } \cup {Response(FALSE, 0)}

CACHE_VERSION == <<"v1">>

\* `five-minute-football-${CACHE_VERSION}`
CACHE_NAME == <<"five-minute-football-">> \o CACHE_VERSION

SHELL_ASSETS ==
  {<<"/">>, <<"/index.html">>, <<"/manifest.webmanifest">>,
   <<"/assets/", "app.js">>, <<"/assets/", "state.js">>,
   <<"/assets/", "render.js">>}

\* pathname.startsWith(prefix), the prefix one literal
startsWith(pathname, prefix) == Len(pathname) > 0 /\ pathname[1] = prefix

\* the pathnames the page asks its own origin for
Pathnames ==
  {<<"/">>, <<"/assets/", "logo.png">>,
   <<"/data/", "cfb", "/week_", "0", "1", ".json">>, <<"/favicon.ico">>}

FetchRequests ==
  { [origin |-> "self", pathname |-> p] : p \in Pathnames }
    \cup {[origin |-> "other", pathname |-> <<"/data/", "teams.json">>]}

\* the branch of the fetch handler a request takes
branchOf(request) ==
  IF request.origin # "self" THEN "none"
  ELSE IF \E asset \in SHELL_ASSETS :
            request.pathname = asset \/ startsWith(request.pathname, "/assets/")
  THEN "shell"
  ELSE IF startsWith(request.pathname, "/data/") THEN "data"
  ELSE "other"

\* caches.match / cache.match: the entry of a request, <<>> for undefined
match(c, request) ==
  IF request.origin = "self" /\ request.pathname \in DOMAIN c
  THEN c[request.pathname] ELSE <<>>

\* install has cached the shell; a data file may be left from an earlier
\* session of the same cache version
SwInit ==
  /\ RunIdle
  /\ FrontIdle
  /\ events = <<>>
  /\ swPhase = "activated"
  /\ cacheKeys = {CACHE_NAME}
  /\ keys = {}
  /\ pending = {}
  /\ \E left \in {<<>>, <<Response(TRUE, 0)>>} :
       cache = [p \in Pathnames |->
                  IF p \in SHELL_ASSETS THEN <<Response(TRUE, 0)>>
                  ELSE IF startsWith(p, "/data/") THEN left
                  ELSE <<>>]

\* the fetch listener up to its first await
fetchEvent ==
  /\ swPhase = "activated"
  /\ Len(events) < MaxEvents
  /\ \E request \in FetchRequests :
       events' = Append(events,
                   [request |-> request, branch |-> branchOf(request),
                    stage |-> IF branchOf(request) \in {"shell", "data"}
                              THEN "match" ELSE "fetch",
                    cached |-> <<>>, network |-> <<>>, answer |-> <<>>])
  /\ UNCHANGED <<cache, lifeVars, runVars, mapArgs, mapResult, frontVars>>

\* caches.match / cache.match resolves
cacheMatch ==
  \E i \in 1 .. Len(events) :
    LET e == events[i]
        found == match(cache, e.request)
    IN  /\ e.stage = "match"
        /\ events' =
             [events EXCEPT ![i] =
                CASE e.branch = "shell" ->
                       \* response || fetch(event.request)
                       IF found # <<>>
                       THEN [e EXCEPT !.cached = found, !.answer = found,
                                      !.stage = "done"]
                       ELSE [e EXCEPT !.stage = "fetch"]
                  [] e.branch = "data" ->
                       \* fetch is started; cachedResponse || fetchPromise
                       [e EXCEPT !.cached = found, !.answer = found,
                                 !.stage = "fetch"]
                  [] OTHER ->
                       \* .catch(() => caches.match(event.request))
                       [e EXCEPT !.cached = found,
                                 !.answer = IF found # <<>> THEN found
                                            ELSE <<NoResponse>>,
                                 !.stage = "done"]]
        /\ UNCHANGED <<cache, lifeVars, runVars, mapArgs, mapResult, frontVars>>

\* networkResponds with cache.put for every response
networkResponds_putAlways ==
  \E i \in 1 .. Len(events), response \in NetworkResponses :
    LET e == events[i]
    IN  /\ e.stage = "fetch"
        /\ events' =
             [events EXCEPT ![i] =
                [e EXCEPT !.network = <<response>>,
                          !.answer = IF e.answer # <<>> THEN e.answer
                                     ELSE <<response>>,
                          !.stage = "done"]]
        /\ cache' = IF e.branch = "data"
                    THEN [cache EXCEPT ![e.request.pathname] = <<response>>]
                    ELSE cache
        /\ UNCHANGED <<lifeVars, runVars, mapArgs, mapResult, frontVars>>

\* fetch(event.request) resolves with a response
networkResponds ==
  \E i \in 1 .. Len(events), response \in NetworkResponses :
    LET e == events[i]
    IN  /\ e.stage = "fetch"
        /\ events' =
             [events EXCEPT ![i] =
                [e EXCEPT !.network = <<response>>,
                          !.answer = IF e.answer # <<>> THEN e.answer
                                     ELSE <<response>>,
                          !.stage = "done"]]
        /\ cache' = IF e.branch = "data" /\ response.ok
                    THEN [cache EXCEPT ![e.request.pathname] = <<response>>]
                    ELSE cache
        /\ UNCHANGED <<lifeVars, runVars, mapArgs, mapResult, frontVars>>

\* fetch(event.request) rejects
networkFails ==
  \E i \in 1 .. Len(events) :
    LET e == events[i]
    IN  /\ e.stage = "fetch"
        /\ events' =
             [events EXCEPT ![i] =
                CASE e.branch = "other" ->
                       [e EXCEPT !.network = <<NoResponse>>, !.stage = "match"]
                  [] e.branch = "data" ->
                       \* .catch(() => cachedResponse)
                       [e EXCEPT !.network = <<NoResponse>>,
                                 !.answer = IF e.answer # <<>> THEN e.answer
                                            ELSE IF e.cached # <<>> THEN e.cached
                                            ELSE <<NoResponse>>,
                                 !.stage = "done"]
                  [] OTHER ->
                       [e EXCEPT !.network = <<NoResponse>>,
                                 !.answer = <<NoResponse>>, !.stage = "done"]]
        /\ UNCHANGED <<cache, lifeVars, runVars, mapArgs, mapResult, frontVars>>

SwNext ==
  \/ fetchEvent
  \/ cacheMatch
  \/ networkResponds
  \/ networkFails

SwSpec == SwInit /\ [][SwNext]_vars

SwTypeOK ==
  /\ Len(events) <= MaxEvents
  /\ \A i \in 1 .. Len(events) :
       events[i].stage \in {"match", "fetch", "done"}
  /\ DOMAIN cache = Pathnames

(***************************************************************************)
(* The service worker, as the page sees it.                                *)
(***************************************************************************)
\* a same-origin request under /data/
IsDataRequest(request) ==
  request.origin = "self" /\ request.pathname[1] = "/data/"

DataPathnames == { p \in Pathnames : p[1] = "/data/" }

\* C20: a same-origin request under /data/ is answered with the cached
\* response when there is one and with the network response otherwise, a
\* network request is made either way, and the cache entry of a data file
\* changes only to an ok response the network gave for that file and is
\* never removed.
C20_DataIsStaleWhileRevalidate ==
  /\ [][\A i \in 1 .. Len(events) :
          (IsDataRequest(events[i].request) /\ events[i].stage = "match"
             /\ events'[i].stage # "match")
            => /\ events'[i].stage = "fetch"
               /\ events'[i].answer = cache[events[i].request.pathname]]_vars
  /\ [][\A i \in 1 .. Len(events) :
          (IsDataRequest(events[i].request) /\ events[i].stage = "fetch"
             /\ events'[i].stage # "fetch")
            => /\ events'[i].stage = "done"
               /\ events'[i].network # <<>>
               /\ events'[i].answer = (IF events[i].answer # <<>>
                                       THEN events[i].answer
                                       ELSE events'[i].network)]_vars
  /\ [][\A p \in DataPathnames :
          /\ cache[p] # <<>> => cache'[p] # <<>>
          /\ cache'[p] # cache[p] =>
               /\ cache'[p][1].kind = "response"
               /\ cache'[p][1].ok
               /\ \E i \in 1 .. Len(events) :
                    /\ events[i].request.pathname = p
                    /\ events[i].request.origin = "self"
                    /\ events[i].stage = "fetch"
                    /\ events'[i].stage = "done"
                    /\ events'[i].network = cache'[p]]_vars

\* C20 witness: a data request was answered from the cache, its
\* revalidation came back not ok, and the cached entry is still there.
C20_Witness ==
  \E i \in 1 .. Len(events) :
    /\ IsDataRequest(events[i].request)
    /\ events[i].stage = "done"
    /\ events[i].cached # <<>>
    /\ events[i].answer = events[i].cached
    /\ events[i].network = <<Response(FALSE, 0)>>
    /\ cache[events[i].request.pathname] = events[i].cached


(***************************************************************************)
(* The life of the service worker (src/API_SETUP.md, lines 144-166): the   *)
(* install handler, then the activate handler, from any set of caches the  *)
(* origin already has.  A cache is known by its name; `cache` is the       *)
(* content of the one named CACHE_NAME.                                    *)
(***************************************************************************)
\* names of caches an earlier version of the worker, or another script of
\* the origin, may have left
OtherCacheKeys ==
  {<<"five-minute-football-", "v0">>, <<"five-minute-football-", "V1">>,
   <<"five-minute-football-">>, <<"fonts">>}

\* the entries of the current cache after cache.addAll(SHELL_ASSETS)
withShell(c) ==
  [p \in DOMAIN c |-> IF p \in SHELL_ASSETS THEN <<Response(TRUE, 0)>> ELSE c[p]]

\* the install event is dispatched; the origin has any of the other caches
\* and perhaps the current one, filled by an earlier install
SwLifeInit ==
  /\ RunIdle
  /\ FrontIdle
  /\ events = <<>>
  /\ swPhase = "installing"
  /\ keys = {}
  /\ pending = {}
  /\ \E others \in SUBSET OtherCacheKeys :
       \/ /\ cacheKeys = others
          /\ cache = [p \in Pathnames |-> <<>>]
       \/ /\ cacheKeys = others \cup {CACHE_NAME}
          /\ \E left \in {<<>>, <<Response(TRUE, 0)>>} :
               cache = withShell([p \in Pathnames |->
                                    IF startsWith(p, "/data/") THEN left
                                    ELSE <<>>])

\* caches.open(CACHE_NAME): the cache is there afterwards
installOpens ==
  /\ swPhase = "installing"
  /\ cacheKeys' = cacheKeys \cup {CACHE_NAME}
  /\ swPhase' = "adding"
  /\ UNCHANGED <<cache, events, keys, pending, runVars, mapArgs, mapResult,
                 frontVars>>

\* cache.addAll(SHELL_ASSETS) resolves, then self.skipWaiting()
addAllSucceeds ==
  /\ swPhase = "adding"
  /\ cache' = withShell(cache)
  /\ swPhase' = "installed"
  /\ UNCHANGED <<events, cacheKeys, keys, pending, runVars, mapArgs, mapResult,
                 frontVars>>

\* cache.addAll(SHELL_ASSETS) rejects: the install fails, the worker is
\* discarded and never activated
addAllFails ==
  /\ swPhase = "adding"
  /\ swPhase' = "redundant"
  /\ UNCHANGED <<cache, events, cacheKeys, keys, pending, runVars, mapArgs,
                 mapResult, frontVars>>

\* activateStarts without the filter: every key is deleted
activateStarts_noFilter ==
  /\ swPhase = "installed"
  /\ keys' = cacheKeys
  /\ pending' = cacheKeys
  /\ swPhase' = "deleting"
  /\ UNCHANGED <<cache, events, cacheKeys, runVars, mapArgs, mapResult,
                 frontVars>>

\* the activate handler: caches.keys() resolves and caches.delete is called
\* for every key that is not CACHE_NAME
activateStarts ==
  /\ swPhase = "installed"
  /\ keys' = cacheKeys
  /\ pending' = { key \in cacheKeys : key # CACHE_NAME }
  /\ swPhase' = "deleting"
  /\ UNCHANGED <<cache, events, cacheKeys, runVars, mapArgs, mapResult,
                 frontVars>>

\* one of the caches.delete calls resolves
cacheDeleted ==
  /\ swPhase = "deleting"
  /\ \E key \in pending :
       /\ cacheKeys' = cacheKeys \ {key}
       /\ pending' = pending \ {key}
  /\ UNCHANGED <<cache, events, swPhase, keys, runVars, mapArgs, mapResult,
                 frontVars>>

\* Promise.all resolves, then self.clients.claim(): the handler is done
clientsClaim ==
  /\ swPhase = "deleting"
  /\ pending = {}
  /\ swPhase' = "activated"
  /\ UNCHANGED <<cache, events, cacheKeys, keys, pending, runVars, mapArgs,
                 mapResult, frontVars>>

SwLifeNext ==
  \/ installOpens
  \/ addAllSucceeds
  \/ addAllFails
  \/ activateStarts
  \/ cacheDeleted
  \/ clientsClaim

SwLifeSpec == SwLifeInit /\ [][SwLifeNext]_vars

SwLifeTypeOK ==
  /\ swPhase \in {"installing", "adding", "installed", "redundant", "deleting",
                  "activated"}
  /\ cacheKeys \subseteq OtherCacheKeys \cup {CACHE_NAME}
  /\ pending \subseteq keys

\* the name of the current version's cache, spelled out
CurrentCacheName == <<"five-minute-football-", "v1">>

\* C21: once the activate handler is done the current version's cache is
\* the only cache left: every other cache there was when it started has
\* been deleted, and no step from the start of the activate handler on removes
\* the current one.
C21_OnlyCurrentCacheRemains ==
  /\ [](swPhase = "activated" =>
          /\ cacheKeys = {CurrentCacheName}
          /\ pending = {}
          /\ \A key \in keys : key # CurrentCacheName => key \notin cacheKeys)
  /\ [][(swPhase \in {"installed", "deleting"} /\ CurrentCacheName \in cacheKeys)
          => CurrentCacheName \in cacheKeys']_vars

\* C21 witness: the activate handler is done; it had found the current cache,
\* the cache of version v0, one whose name differs only in case and a
\* foreign one, and only the current cache is left.
C21_Witness ==
  /\ swPhase = "activated"
  /\ keys = {CurrentCacheName, <<"five-minute-football-", "v0">>,
             <<"five-minute-football-", "V1">>, <<"fonts">>}
  /\ cacheKeys = {CurrentCacheName}

====
